---- MODULE Spec2Model ----
(***************************************************************************)
(* WorkspaceFactory (python/composio/tools/env/factory.py): the class-level *)
(* registry of workspaces, its most-recent reference, its lock, and the     *)
(* atexit hook that tears the registry down.                                *)
(*                                                                          *)
(* Two threads call the factory: "main", which also runs the atexit hook    *)
(* when it leaves the program, and "daemon", a daemon thread that may still *)
(* be inside a factory call while the hook runs.  Every step of a thread is *)
(* one read or write of the shared class attributes, at the granularity of  *)
(* the source lines.                                                        *)
(***************************************************************************)
EXTENDS Naturals, Sequences, FiniteSets

VARIABLES
    workspaces,   \* WorkspaceFactory._workspaces: insertion-ordered dict id -> Workspace
    recent,       \* WorkspaceFactory._recent (NoRecent: the attribute was never assigned)
    lock,         \* WorkspaceFactory._lock: Free, or the thread that acquired it
    created,      \* number of Workspace objects constructed so far
    state,        \* Workspace state per object: "Unborn", "Active", "TornDown"
    teardowns,    \* per object: how many times Workspace.teardown was invoked
    pc,           \* per thread: position in the code
    frame,        \* per thread: the running call, its arguments and locals
    calls,        \* number of factory calls started by the threads
    tracing,      \* whether completed calls are logged (single-threaded runs)
    history,      \* the log of completed calls, in program order
    provisionedAtExit,  \* the Workspace objects that existed when the atexit hook started
    repo_to_workspace_map,  \* run(): repo -> workspace id (NoWorkspace: no such key)
    docker_workspaces,      \* run(): the repo of each workspace create_workspace returned
    issue_log               \* run(): what setup_workspace did for each issue so far

benchVars == <<repo_to_workspace_map, docker_workspaces, issue_log>>

factoryVars == <<workspaces, recent, lock, created, state, teardowns, pc, frame, calls,
                 tracing, history, provisionedAtExit>>

vars == <<workspaces, recent, lock, created, state, teardowns, pc, frame, calls,
          tracing, history, provisionedAtExit, benchVars>>

----------------------------------------------------------------------------
(* Bounds of the model *)

MaxWs == 2

MaxCalls == 4

MaxIssues == 3

----------------------------------------------------------------------------
(* Values *)

Threads == {"main", "daemon"}

ExecEnv == {"host", "docker", "flyio", "e2b"}

Objects == 1..MaxWs

\* `id` argument of get(): None
None == 0

\* WorkspaceFactory._recent is only annotated, never assigned, in the class body
NoRecent == 0

Free == "free"

NoEnv == ""

NoErr == ""

ErrUnsupported == "ComposioSDKError: workspace environment not supported"

ErrNotFound == "ComposioSDKError: workspace not found"

ErrAttribute == "AttributeError: _recent"

ErrKey == "KeyError"

ErrDictChanged == "RuntimeError: dictionary changed size during iteration"

ErrProvisioning == "ProvisioningError"

ErrTeardown == "TeardownError"

\* Workspace.id: unique per constructed object
WorkspaceId(w) == w

----------------------------------------------------------------------------
(* The dict _workspaces: a sequence of entries in insertion order *)

Keys(d) == {d[i].id : i \in 1..Len(d)}

Values(d) == {d[i].ws : i \in 1..Len(d)}

Has(d, id) == id \in Keys(d)

Lookup(d, id) == d[CHOOSE i \in 1..Len(d) : d[i].id = id].ws

\* Mutant of Put: the store overwrites the entry that was inserted last
Put_overwrite(d, id, w) ==
    IF d = <<>>
    THEN <<[id |-> id, ws |-> w]>>
    ELSE [d EXCEPT ![Len(d)] = [id |-> id, ws |-> w]]

\* d[id] = w: an existing key keeps its position, a new key goes last
Put(d, id, w) ==
    IF Has(d, id)
    THEN [i \in 1..Len(d) |-> IF d[i].id = id THEN [id |-> id, ws |-> w] ELSE d[i]]
    ELSE Append(d, [id |-> id, ws |-> w])

----------------------------------------------------------------------------
(* Frames and the log of completed calls *)

Snapshot ==
    [index |-> workspaces, recent |-> recent, teardowns |-> teardowns,
     created |-> created, state |-> state]

NoSnapshot == <<>>

InitFrame ==
    [op |-> "", env |-> NoEnv, id |-> None, ws |-> 0, used |-> 0, pos |-> 0,
     pre |-> NoSnapshot]

Running == pc["main"] # "exited"

Begin(t, op, env, id, label) ==
    /\ Running
    /\ pc[t] = "idle"
    /\ calls < MaxCalls
    /\ calls' = calls + 1
    /\ pc' = [pc EXCEPT ![t] = label]
    /\ frame' = [frame EXCEPT ![t] =
                    [InitFrame EXCEPT !.op = op, !.env = env, !.id = id,
                                      !.pre = IF tracing THEN Snapshot ELSE NoSnapshot]]

\* The call of thread t completes: it returns val (ok) or raises err
Finish(t, ok, val, err) ==
    /\ history' = IF tracing
                  THEN Append(history,
                          [thread |-> t, op |-> frame[t].op, env |-> frame[t].env,
                           id |-> frame[t].id, ok |-> ok, val |-> val, err |-> err,
                           pre |-> frame[t].pre, post |-> Snapshot'])
                  ELSE history
    /\ pc' = [pc EXCEPT ![t] = IF frame[t].op = "_teardown" THEN "exited" ELSE "idle"]
    /\ frame' = [frame EXCEPT ![t] = InitFrame]

Goto(t, label) == pc' = [pc EXCEPT ![t] = label]

At(t, label) == Running /\ pc[t] = label

----------------------------------------------------------------------------
(* Workspace (composio.tools.env.base): construction and teardown *)

\* Workspace.teardown() on object w.  Idempotent: on a torn-down object it does
\* nothing and does not raise.  Otherwise it releases the resource, or fails.
WorkspaceTeardown(w, succeeds) ==
    /\ teardowns' = [teardowns EXCEPT ![w] = @ + 1]
    /\ state' = IF state[w] = "Active" /\ succeeds
                THEN [state EXCEPT ![w] = "TornDown"]
                ELSE state

TeardownRaises(w, succeeds) == state[w] = "Active" /\ ~succeeds

\* HostWorkspace() / DockerWorkspace(): a fresh object with a fresh id
Construct(w) ==
    /\ w = created + 1
    /\ w \in Objects
    /\ created' = w
    /\ state' = [state EXCEPT ![w] = "Active"]

----------------------------------------------------------------------------
(* Calls *)

call_new(t) ==
    /\ UNCHANGED <<tracing, benchVars>>
    /\ \E env \in ExecEnv : Begin(t, "new", env, None, "new_construct")
    /\ UNCHANGED <<workspaces, recent, lock, created, state, teardowns, history,
                   provisionedAtExit>>

call_get(t) ==
    /\ UNCHANGED <<tracing, benchVars>>
    /\ \E id \in {None} \cup Objects :
          Begin(t, "get", NoEnv, id, IF id = None THEN "get_recent_acquire" ELSE "get_check")
    /\ UNCHANGED <<workspaces, recent, lock, created, state, teardowns, history,
                   provisionedAtExit>>

call_close(t) ==
    /\ UNCHANGED <<tracing, benchVars>>
    /\ \E id \in Objects : Begin(t, "close", NoEnv, id, "close_check")
    /\ UNCHANGED <<workspaces, recent, lock, created, state, teardowns, history,
                   provisionedAtExit>>

call_teardown(t) ==
    /\ UNCHANGED <<tracing, benchVars>>
    /\ Begin(t, "teardown", NoEnv, None, "teardown_iter")
    /\ UNCHANGED <<workspaces, recent, lock, created, state, teardowns, history,
                   provisionedAtExit>>

\* The atexit hook: main leaves the program and the runtime calls _teardown()
atexit_teardown(t) ==
    /\ UNCHANGED <<calls, tracing, benchVars>>
    /\ t = "main"
    /\ Running
    /\ pc[t] = "idle"
    /\ pc' = [pc EXCEPT ![t] = "teardown_iter"]
    /\ frame' = [frame EXCEPT ![t] =
                    [InitFrame EXCEPT !.op = "_teardown",
                                      !.pre = IF tracing THEN Snapshot ELSE NoSnapshot]]
    /\ provisionedAtExit' = 1..created
    /\ UNCHANGED <<workspaces, recent, lock, created, state, teardowns, history>>

----------------------------------------------------------------------------
(* set_recent_workspace, get_recent_workspace *)

\* Mutant of set_recent_acquire: _recent is assigned without taking the lock
set_recent_acquire_unlocked(t) ==
    /\ UNCHANGED <<calls, tracing, benchVars>>
    /\ At(t, "set_recent_acquire")
    /\ Goto(t, "set_recent_write")
    /\ UNCHANGED <<workspaces, recent, lock, created, state, teardowns, frame, history,
                   provisionedAtExit>>

set_recent_acquire(t) ==
    /\ UNCHANGED <<calls, tracing, benchVars>>
    /\ At(t, "set_recent_acquire")
    /\ lock = Free
    /\ lock' = t
    /\ Goto(t, "set_recent_write")
    /\ UNCHANGED <<workspaces, recent, created, state, teardowns, frame, history,
                   provisionedAtExit>>

\* Mutant of set_recent_write: only the first call assigns _recent
set_recent_write_once(t) ==
    /\ UNCHANGED <<calls, tracing, benchVars>>
    /\ At(t, "set_recent_write")
    /\ recent' = IF recent = NoRecent THEN frame[t].ws ELSE recent
    /\ Goto(t, "set_recent_release")
    /\ UNCHANGED <<workspaces, lock, created, state, teardowns, frame, history,
                   provisionedAtExit>>

set_recent_write(t) ==
    /\ UNCHANGED <<calls, tracing, benchVars>>
    /\ At(t, "set_recent_write")
    /\ recent' = frame[t].ws
    /\ Goto(t, "set_recent_release")
    /\ UNCHANGED <<workspaces, lock, created, state, teardowns, frame, history,
                   provisionedAtExit>>

set_recent_release(t) ==
    /\ UNCHANGED <<calls, tracing, benchVars>>
    /\ At(t, "set_recent_release")
    /\ lock' = Free
    /\ UNCHANGED <<workspaces, recent, created, state, teardowns, provisionedAtExit>>
    /\ Finish(t, TRUE, frame[t].ws, NoErr)

get_recent_acquire(t) ==
    /\ UNCHANGED <<calls, tracing, benchVars>>
    /\ At(t, "get_recent_acquire")
    /\ lock = Free
    /\ lock' = t
    /\ Goto(t, "get_recent_read")
    /\ UNCHANGED <<workspaces, recent, created, state, teardowns, frame, history,
                   provisionedAtExit>>

\* workspace = cls._recent: AttributeError while _recent was never assigned; the
\* exception leaves the function with the lock still acquired
get_recent_read(t) ==
    /\ UNCHANGED <<calls, tracing, benchVars>>
    /\ At(t, "get_recent_read")
    /\ UNCHANGED <<workspaces, recent, lock, created, state, teardowns, provisionedAtExit>>
    /\ IF recent = NoRecent
       THEN Finish(t, FALSE, 0, ErrAttribute)
       ELSE /\ frame' = [frame EXCEPT ![t].ws = recent]
            /\ Goto(t, "get_recent_release")
            /\ UNCHANGED history

get_recent_release(t) ==
    /\ UNCHANGED <<calls, tracing, benchVars>>
    /\ At(t, "get_recent_release")
    /\ lock' = Free
    /\ UNCHANGED <<workspaces, recent, created, state, teardowns, provisionedAtExit>>
    /\ Finish(t, TRUE, frame[t].ws, NoErr)

----------------------------------------------------------------------------
(* new *)

\* Mutant of new_construct: the workspace is constructed before env is checked
new_construct_eager(t) ==
    /\ UNCHANGED <<calls, tracing, benchVars>>
    /\ At(t, "new_construct")
    /\ UNCHANGED <<workspaces, recent, lock, teardowns, provisionedAtExit>>
    /\ \/ /\ Construct(created + 1)
          /\ IF frame[t].env \notin {"host", "docker"}
             THEN Finish(t, FALSE, 0, ErrUnsupported)
             ELSE /\ frame' = [frame EXCEPT ![t].ws = created + 1]
                  /\ Goto(t, "new_insert")
                  /\ UNCHANGED history
       \/ /\ UNCHANGED <<created, state>>
          /\ Finish(t, FALSE, 0, ErrProvisioning)

\* Lines 61-68: dispatch on env, construct the workspace
new_construct(t) ==
    /\ UNCHANGED <<calls, tracing, benchVars>>
    /\ At(t, "new_construct")
    /\ UNCHANGED <<workspaces, recent, lock, teardowns, provisionedAtExit>>
    /\ IF frame[t].env \notin {"host", "docker"}
       THEN /\ UNCHANGED <<created, state>>
            /\ Finish(t, FALSE, 0, ErrUnsupported)
       ELSE \/ /\ Construct(created + 1)
               /\ frame' = [frame EXCEPT ![t].ws = created + 1]
               /\ Goto(t, "new_insert")
               /\ UNCHANGED history
            \/ /\ UNCHANGED <<created, state>>
               /\ Finish(t, FALSE, 0, ErrProvisioning)

\* Mutant of new_insert: the workspace becomes most recent without being stored
new_insert_skipped(t) ==
    /\ UNCHANGED <<calls, tracing, benchVars>>
    /\ At(t, "new_insert")
    /\ Goto(t, "set_recent_acquire")
    /\ UNCHANGED <<workspaces, recent, lock, created, state, teardowns, frame, history,
                   provisionedAtExit>>

\* Line 69: cls._workspaces[workspace.id] = workspace
new_insert(t) ==
    /\ UNCHANGED <<calls, tracing, benchVars>>
    /\ At(t, "new_insert")
    /\ workspaces' = Put(workspaces, WorkspaceId(frame[t].ws), frame[t].ws)
    /\ Goto(t, "set_recent_acquire")
    /\ UNCHANGED <<recent, lock, created, state, teardowns, frame, history,
                   provisionedAtExit>>

----------------------------------------------------------------------------
(* get *)

\* Mutant of get_check: a miss falls back to the most recent workspace
get_check_default(t) ==
    /\ UNCHANGED <<calls, tracing, benchVars>>
    /\ At(t, "get_check")
    /\ UNCHANGED <<workspaces, recent, lock, created, state, teardowns, provisionedAtExit>>
    /\ IF ~Has(workspaces, frame[t].id)
       THEN IF recent = NoRecent
            THEN Finish(t, FALSE, 0, ErrNotFound)
            ELSE Finish(t, TRUE, recent, NoErr)
       ELSE /\ Goto(t, "get_lookup")
            /\ UNCHANGED <<frame, history>>

\* Lines 78-79
get_check(t) ==
    /\ UNCHANGED <<calls, tracing, benchVars>>
    /\ At(t, "get_check")
    /\ UNCHANGED <<workspaces, recent, lock, created, state, teardowns, provisionedAtExit>>
    /\ IF ~Has(workspaces, frame[t].id)
       THEN Finish(t, FALSE, 0, ErrNotFound)
       ELSE /\ Goto(t, "get_lookup")
            /\ UNCHANGED <<frame, history>>

\* Line 81
get_lookup(t) ==
    /\ UNCHANGED <<calls, tracing, benchVars>>
    /\ At(t, "get_lookup")
    /\ UNCHANGED <<workspaces, recent, lock, created, state, teardowns, provisionedAtExit>>
    /\ IF ~Has(workspaces, frame[t].id)
       THEN Finish(t, FALSE, 0, ErrKey)
       ELSE /\ frame' = [frame EXCEPT ![t].ws = Lookup(workspaces, frame[t].id)]
            /\ Goto(t, "set_recent_acquire")
            /\ UNCHANGED history

----------------------------------------------------------------------------
(* close *)

\* Mutant of close_check: closing an unknown id raises not-found
close_check_strict(t) ==
    /\ UNCHANGED <<calls, tracing, benchVars>>
    /\ At(t, "close_check")
    /\ UNCHANGED <<workspaces, recent, lock, created, state, teardowns, provisionedAtExit>>
    /\ IF ~Has(workspaces, frame[t].id)
       THEN Finish(t, FALSE, 0, ErrNotFound)
       ELSE /\ Goto(t, "close_teardown")
            /\ UNCHANGED <<frame, history>>

\* Lines 87-88
close_check(t) ==
    /\ UNCHANGED <<calls, tracing, benchVars>>
    /\ At(t, "close_check")
    /\ UNCHANGED <<workspaces, recent, lock, created, state, teardowns, provisionedAtExit>>
    /\ IF ~Has(workspaces, frame[t].id)
       THEN Finish(t, TRUE, 0, NoErr)
       ELSE /\ Goto(t, "close_teardown")
            /\ UNCHANGED <<frame, history>>

\* Mutant of close_teardown: closing the most recent workspace unsets _recent
close_teardown_clears(t) ==
    /\ UNCHANGED <<calls, tracing, benchVars>>
    /\ At(t, "close_teardown")
    /\ UNCHANGED <<workspaces, lock, created, provisionedAtExit>>
    /\ Has(workspaces, frame[t].id)
    /\ \E succeeds \in BOOLEAN :
          LET w == Lookup(workspaces, frame[t].id) IN
          /\ WorkspaceTeardown(w, succeeds)
          /\ recent' = IF recent = w THEN NoRecent ELSE recent
          /\ IF TeardownRaises(w, succeeds)
             THEN Finish(t, FALSE, 0, ErrTeardown)
             ELSE Finish(t, TRUE, 0, NoErr)

\* Line 89: cls._workspaces[id].teardown()
close_teardown(t) ==
    /\ UNCHANGED <<calls, tracing, benchVars>>
    /\ At(t, "close_teardown")
    /\ UNCHANGED <<workspaces, recent, lock, created, provisionedAtExit>>
    /\ IF ~Has(workspaces, frame[t].id)
       THEN /\ UNCHANGED <<state, teardowns>>
            /\ Finish(t, FALSE, 0, ErrKey)
       ELSE \E succeeds \in BOOLEAN :
               LET w == Lookup(workspaces, frame[t].id) IN
               /\ WorkspaceTeardown(w, succeeds)
               /\ IF TeardownRaises(w, succeeds)
                  THEN Finish(t, FALSE, 0, ErrTeardown)
                  ELSE Finish(t, TRUE, 0, NoErr)

----------------------------------------------------------------------------
(* teardown: for id in cls._workspaces: cls._workspaces[id].teardown() *)

\* Line 94, iter(cls._workspaces): the iterator remembers the dict's size
teardown_iter(t) ==
    /\ UNCHANGED <<calls, tracing, benchVars>>
    /\ At(t, "teardown_iter")
    /\ frame' = [frame EXCEPT ![t].used = Len(workspaces), ![t].pos = 0]
    /\ Goto(t, "teardown_next")
    /\ UNCHANGED <<workspaces, recent, lock, created, state, teardowns, history,
                   provisionedAtExit>>

\* Line 94, next(iterator): RuntimeError if the dict's size changed, else the
\* next key in insertion order, else the loop ends and teardown returns
teardown_next(t) ==
    /\ UNCHANGED <<calls, tracing, benchVars>>
    /\ At(t, "teardown_next")
    /\ UNCHANGED <<workspaces, recent, lock, created, state, teardowns, provisionedAtExit>>
    /\ IF Len(workspaces) # frame[t].used
       THEN Finish(t, FALSE, 0, ErrDictChanged)
       ELSE IF frame[t].pos >= Len(workspaces)
       THEN Finish(t, TRUE, 0, NoErr)
       ELSE /\ frame' = [frame EXCEPT ![t].pos = @ + 1,
                                      ![t].id = workspaces[frame[t].pos + 1].id]
            /\ Goto(t, "teardown_body")
            /\ UNCHANGED history

\* Line 95: cls._workspaces[id].teardown(); an exception leaves the loop
teardown_body(t) ==
    /\ UNCHANGED <<calls, tracing, benchVars>>
    /\ At(t, "teardown_body")
    /\ UNCHANGED <<workspaces, recent, lock, created, provisionedAtExit>>
    /\ \E succeeds \in BOOLEAN :
          LET w == Lookup(workspaces, frame[t].id) IN
          /\ WorkspaceTeardown(w, succeeds)
          /\ IF TeardownRaises(w, succeeds)
             THEN Finish(t, FALSE, 0, ErrTeardown)
             ELSE /\ Goto(t, "teardown_next")
                  /\ UNCHANGED <<frame, history>>

----------------------------------------------------------------------------
(* The benchmark (python/swe/benchmark/run_evaluation.py): run() and           *)
(* setup_workspace(), one step per issue of the dataset                         *)

Repos == {"django/django", "sympy/sympy"}

\* repo_to_workspace_map.get(repo) is None
NoWorkspace == 0

\* repo_to_image_id_map of run(): created empty and never filled
repo_to_image_id_map == <<>>

\* create_workspace_from_image returns "" for a repo without a saved image
HasSavedImage(repo) == repo \in DOMAIN repo_to_image_id_map

\* WorkspaceFactory.get_instance().create_workspace(...): a fresh, non-empty id
create_workspace == Len(docker_workspaces) + 1

LogIssue(repo, created_id, returned_id, error) ==
    issue_log' = Append(issue_log,
                    [repo |-> repo, created |-> created_id, returned |-> returned_id,
                     err |-> error])

\* setup_workspace, first branch: the repo has a workspace in the map; the
\* repository is reset to the issue's base commit, which may raise
get_workspace_from_repo_map(repo) ==
    /\ Len(issue_log) < MaxIssues
    /\ repo_to_workspace_map[repo] # NoWorkspace
    /\ \E reset_ok \in BOOLEAN :
          IF reset_ok
          THEN LogIssue(repo, NoWorkspace, repo_to_workspace_map[repo], NoErr)
          ELSE LogIssue(repo, NoWorkspace, NoWorkspace, "reset failed")
    /\ UNCHANGED <<repo_to_workspace_map, docker_workspaces, factoryVars>>

\* setup_workspace, last branch: no workspace in the map and no saved image;
\* a workspace is created, the repository is cloned, and only then the map is
\* updated.  Either call may raise; run() catches it and goes on.
build_image_and_container(repo) ==
    /\ Len(issue_log) < MaxIssues
    /\ repo_to_workspace_map[repo] = NoWorkspace
    /\ ~HasSavedImage(repo)
    /\ UNCHANGED factoryVars
    /\ \E create_ok, clone_ok \in BOOLEAN :
          IF ~create_ok
          THEN /\ LogIssue(repo, NoWorkspace, NoWorkspace, "create failed")
               /\ UNCHANGED <<repo_to_workspace_map, docker_workspaces>>
          ELSE /\ docker_workspaces' = Append(docker_workspaces, repo)
               /\ IF clone_ok
                  THEN /\ repo_to_workspace_map' =
                             [repo_to_workspace_map EXCEPT ![repo] = create_workspace]
                       /\ LogIssue(repo, create_workspace, create_workspace, NoErr)
                  ELSE /\ UNCHANGED repo_to_workspace_map
                       /\ LogIssue(repo, create_workspace, NoWorkspace, "clone failed")

----------------------------------------------------------------------------
(* Specifications *)

Init ==
    /\ workspaces = <<>>
    /\ recent = NoRecent
    /\ lock = Free
    /\ created = 0
    /\ state = [w \in Objects |-> "Unborn"]
    /\ teardowns = [w \in Objects |-> 0]
    /\ pc = [t \in Threads |-> "idle"]
    /\ frame = [t \in Threads |-> InitFrame]
    /\ calls = 0
    /\ tracing = FALSE
    /\ history = <<>>
    /\ provisionedAtExit = {}
    /\ repo_to_workspace_map = [r \in Repos |-> NoWorkspace]
    /\ docker_workspaces = <<>>
    /\ issue_log = <<>>

Step(t) ==
    \/ call_new(t)
    \/ call_get(t)
    \/ call_close(t)
    \/ call_teardown(t)
    \/ atexit_teardown(t)
    \/ set_recent_acquire(t)
    \/ set_recent_write(t)
    \/ set_recent_release(t)
    \/ get_recent_acquire(t)
    \/ get_recent_read(t)
    \/ get_recent_release(t)
    \/ new_construct(t)
    \/ new_insert(t)
    \/ get_check(t)
    \/ get_lookup(t)
    \/ close_check(t)
    \/ close_teardown(t)
    \/ teardown_iter(t)
    \/ teardown_next(t)
    \/ teardown_body(t)

\* Both threads call the factory
Next == \E t \in Threads : Step(t)

Spec == Init /\ [][Next]_vars

\* Only the main thread calls the factory, and its calls are logged
SeqInit ==
    /\ workspaces = <<>>
    /\ recent = NoRecent
    /\ lock = Free
    /\ created = 0
    /\ state = [w \in Objects |-> "Unborn"]
    /\ teardowns = [w \in Objects |-> 0]
    /\ pc = [t \in Threads |-> "idle"]
    /\ frame = [t \in Threads |-> InitFrame]
    /\ calls = 0
    /\ tracing = TRUE
    /\ history = <<>>
    /\ provisionedAtExit = {}
    /\ repo_to_workspace_map = [r \in Repos |-> NoWorkspace]
    /\ docker_workspaces = <<>>
    /\ issue_log = <<>>

SeqNext == Step("main")

SeqSpec == SeqInit /\ [][SeqNext]_vars

\* The benchmark's loop over the issues
BenchNext ==
    \E repo \in Repos :
        \/ get_workspace_from_repo_map(repo)
        \/ build_image_and_container(repo)

BenchSpec == Init /\ [][BenchNext]_vars

----------------------------------------------------------------------------
(* The log of the single-threaded runs *)

Calls == 1..Len(history)

\* close(id) on an id that was a key of the index when the call started
ClosesPresent(e) == e.op = "close" /\ Has(e.pre.index, e.id)

\* a successful new(env) or get(id): the calls that target a workspace
Targets(e) == e.ok /\ (e.op = "new" \/ (e.op = "get" /\ e.id # None))

SetMax(S) == CHOOSE x \in S : \A y \in S : y <= x

\* the last call before call i that targeted a workspace (0: there is none)
LastTargeting(i) ==
    LET J == {j \in 1..(i - 1) : Targets(history[j])}
    IN  IF J = {} THEN 0 ELSE SetMax(J)

\* the errors the factory raises on purpose (ComposioSDKError)
TypedErrors == {ErrUnsupported, ErrNotFound}

----------------------------------------------------------------------------
(* C1 *)

\* C1: for an id present in the index, once close(id) has returned, the
\* workspace's teardown has been invoked and id is no longer a key of the
\* index, so that a get(id) that follows fails with the not-found error.
C1_CloseRemovesEntry ==
    \A i \in Calls :
        LET e == history[i] IN
        (ClosesPresent(e) /\ e.ok) =>
            /\ e.post.teardowns[Lookup(e.pre.index, e.id)]
                  > e.pre.teardowns[Lookup(e.pre.index, e.id)]
            /\ ~Has(e.post.index, e.id)
            /\ (i + 1 \in Calls /\ history[i + 1].op = "get" /\ history[i + 1].id = e.id)
                  => (~history[i + 1].ok /\ history[i + 1].err = ErrNotFound)

----------------------------------------------------------------------------
(* C2 *)

\* C2: once the factory-wide teardown sweep has returned, the index is empty
\* and every workspace that was indexed when the sweep began has had its
\* teardown invoked.
C2_SweepEmptiesIndex ==
    \A i \in Calls :
        LET e == history[i] IN
        (e.op = "teardown" /\ e.ok) =>
            /\ e.post.index = <<>>
            /\ \A w \in Values(e.pre.index) : e.post.teardowns[w] > e.pre.teardowns[w]

----------------------------------------------------------------------------
(* C3 *)

\* C3: when the teardown of one indexed workspace fails during the sweep, the
\* sweep has nevertheless invoked teardown on every workspace that was indexed
\* when it began, by the time it reports the failure.
C3_SweepToleratesFailure ==
    \A i \in Calls :
        LET e == history[i] IN
        (e.op = "teardown" /\ ~e.ok) =>
            \A w \in Values(e.pre.index) : e.post.teardowns[w] > e.pre.teardowns[w]

----------------------------------------------------------------------------
(* C4 *)

\* C4: when the atexit hook has run and the process has exited, every
\* workspace that had been constructed when the hook started has had its
\* teardown invoked, whatever the other thread was doing meanwhile.
C4_NoLeakAtExit ==
    pc["main"] = "exited" => \A w \in provisionedAtExit : teardowns[w] > 0

----------------------------------------------------------------------------
(* C5 *)

\* C5: in a single thread, a get(None) that follows a successful new(env) or
\* get(id) returns the workspace the most recent of those calls returned, and
\* leaves the most-recent reference as it was.
C5_Recency ==
    \A i \in Calls :
        LET e == history[i] IN
        (e.op = "get" /\ e.id = None /\ LastTargeting(i) # 0) =>
            /\ e.ok
            /\ e.val = history[LastTargeting(i)].val
            /\ e.post.recent = e.pre.recent

\* new(), new(), get(first id), get(None): the most recent target is the
\* workspace a get(id) retrieved, not the one created last
C5_Witness ==
    \E i \in Calls :
        /\ history[i].op = "get" /\ history[i].id = None /\ history[i].ok
        /\ LastTargeting(i) # 0
        /\ history[LastTargeting(i)].op = "get"
        /\ history[i].val # history[i].pre.created

----------------------------------------------------------------------------
(* C6 *)

\* C6: get(None) before any workspace was created fails with a typed error of
\* the factory and leaves the index and the most-recent reference unchanged.
C6_NoneAvailableIsTyped ==
    \A i \in Calls :
        LET e == history[i] IN
        (e.op = "get" /\ e.id = None /\ e.pre.created = 0) =>
            /\ ~e.ok
            /\ e.err \in TypedErrors
            /\ e.post.index = e.pre.index
            /\ e.post.recent = e.pre.recent

----------------------------------------------------------------------------
(* C7 *)

\* C7: get(id) with an id that is not a key of the index fails with the
\* not-found error and leaves the index and the most-recent reference
\* unchanged.
C7_LookupMiss ==
    \A i \in Calls :
        LET e == history[i] IN
        (e.op = "get" /\ e.id # None /\ ~Has(e.pre.index, e.id)) =>
            /\ ~e.ok
            /\ e.err = ErrNotFound
            /\ e.post.index = e.pre.index
            /\ e.post.recent = e.pre.recent

\* a miss while another workspace is indexed and is the most recent one
C7_Witness ==
    \E i \in Calls :
        /\ history[i].op = "get" /\ history[i].id # None
        /\ ~Has(history[i].pre.index, history[i].id)
        /\ history[i].pre.index # <<>>
        /\ history[i].pre.recent # NoRecent

----------------------------------------------------------------------------
(* C8 *)

\* C8: a new(env) that fails leaves the index and the most-recent reference
\* as they were, and for an unsupported env no workspace has been constructed.
C8_FailedCreate ==
    \A i \in Calls :
        LET e == history[i] IN
        (e.op = "new" /\ ~e.ok) =>
            /\ e.post.index = e.pre.index
            /\ e.post.recent = e.pre.recent
            /\ e.env \notin {"host", "docker"} =>
                  (e.err = ErrUnsupported /\ e.post.created = e.pre.created)

\* both failures, each after a workspace was created
C8_Witness ==
    /\ \E i \in Calls :
          /\ history[i].op = "new" /\ history[i].err = ErrUnsupported
          /\ history[i].pre.index # <<>>
    /\ \E i \in Calls :
          /\ history[i].op = "new" /\ history[i].err = ErrProvisioning
          /\ history[i].pre.index # <<>>

----------------------------------------------------------------------------
(* C9 *)

\* C9: of two close(id) calls in a row, the second invokes no teardown and
\* changes neither the index nor the most-recent reference.
C9_SecondCloseIsNoOp ==
    \A i \in Calls :
        LET e == history[i] IN
        (i + 1 \in Calls /\ ClosesPresent(e) /\ e.ok
            /\ history[i + 1].op = "close" /\ history[i + 1].id = e.id) =>
            LET f == history[i + 1] IN
            /\ f.ok
            /\ f.post.teardowns = f.pre.teardowns
            /\ f.post.index = f.pre.index
            /\ f.post.recent = f.pre.recent

----------------------------------------------------------------------------
(* C10 *)

\* close(W.id) while the most-recent reference points to W, then get(None)
ClosedRecentThenGet(i) ==
    /\ i + 1 \in Calls
    /\ ClosesPresent(history[i])
    /\ history[i].pre.recent = Lookup(history[i].pre.index, history[i].id)
    /\ history[i + 1].op = "get" /\ history[i + 1].id = None

\* C10, as claimed: the get(None) that follows close(W.id) fails instead of
\* returning W.
C10_StaleRecentFails ==
    \A i \in Calls : ClosedRecentThenGet(i) => ~history[i + 1].ok

\* C10, amended: the get(None) that follows close(W.id) returns W, whose
\* teardown has been invoked; the most-recent reference still points to W.
C10_StaleRecentReturned ==
    \A i \in Calls :
        ClosedRecentThenGet(i) =>
            /\ history[i + 1].ok
            /\ history[i + 1].val = history[i].pre.recent
            /\ history[i + 1].post.recent = history[i].pre.recent
            /\ history[i + 1].pre.teardowns[history[i].pre.recent] > 0

\* the workspace that get(None) returned after the close is torn down
C10_Witness ==
    \E i \in Calls :
        /\ ClosedRecentThenGet(i)
        /\ history[i].ok
        /\ history[i + 1].ok
        /\ history[i + 1].post.state[history[i + 1].val] = "TornDown"

----------------------------------------------------------------------------
(* C11 *)

\* C11: close(id) with an id that is not a key of the index returns without
\* an error, invokes no teardown and leaves the index and the most-recent
\* reference unchanged; close(id) with a present id leaves the most-recent
\* reference unchanged when it points to another workspace.
C11_CloseFrame ==
    \A i \in Calls :
        LET e == history[i] IN
        e.op = "close" =>
            /\ ~Has(e.pre.index, e.id) =>
                  /\ e.ok
                  /\ e.post.teardowns = e.pre.teardowns
                  /\ e.post.index = e.pre.index
                  /\ e.post.recent = e.pre.recent
            /\ (Has(e.pre.index, e.id) /\ e.pre.recent # Lookup(e.pre.index, e.id)) =>
                  e.post.recent = e.pre.recent

\* a close of an unknown id while a workspace is indexed, and a close of an
\* indexed workspace while the most-recent reference points to another one
C11_Witness ==
    /\ \E i \in Calls :
          /\ history[i].op = "close"
          /\ ~Has(history[i].pre.index, history[i].id)
          /\ history[i].pre.index # <<>>
    /\ \E i \in Calls :
          /\ history[i].op = "close"
          /\ Has(history[i].pre.index, history[i].id)
          /\ history[i].pre.recent # NoRecent
          /\ history[i].pre.recent # Lookup(history[i].pre.index, history[i].id)

----------------------------------------------------------------------------
(* C12 *)

\* C12: the atexit hook never propagates a failure: whatever happens in the
\* sweep it calls, _teardown returns normally.
C12_GuardSwallows ==
    \A i \in Calls : history[i].op = "_teardown" => history[i].ok

----------------------------------------------------------------------------
(* C13 *)

\* the workspaces that new has constructed and not yet stored in the index
PendingInsert == {frame[t].ws : t \in {u \in Threads : pc[u] = "new_insert"}}

\* C13: under any interleaving of the threads' calls, no two constructed
\* workspaces share an id, the keys of the index are distinct, and every
\* workspace that new has stored is still in the index under its own id.
C13_DistinctEntries ==
    /\ \A v, w \in 1..created : v # w => WorkspaceId(v) # WorkspaceId(w)
    /\ \A i, j \in 1..Len(workspaces) : i # j => workspaces[i].id # workspaces[j].id
    /\ \A i \in 1..Len(workspaces) : workspaces[i].id = WorkspaceId(workspaces[i].ws)
    /\ \A w \in (1..created) \ PendingInsert :
          /\ Has(workspaces, WorkspaceId(w))
          /\ Lookup(workspaces, WorkspaceId(w)) = w

\* two creates overlapped: the workspace constructed second was stored first
C13_Witness ==
    /\ Len(workspaces) = 2
    /\ workspaces[1].ws = 2
    /\ workspaces[2].ws = 1

----------------------------------------------------------------------------
(* C14 *)

\* thread t has found id in the index and is about to call its teardown
ActsOn(t, id) ==
    /\ pc[t] \in {"close_teardown", "teardown_body"}
    /\ frame[t].id = id

\* C14: when close(id) races with the sweep of the atexit hook on the same
\* workspace, at most one of the two gets to act on the workspace.
C14_AtMostOneActs ==
    \A id \in Objects :
        ~(/\ frame["daemon"].op = "close" /\ ActsOn("daemon", id)
          /\ frame["main"].op = "_teardown" /\ ActsOn("main", id))

----------------------------------------------------------------------------
(* C15 *)

\* C15: whenever no factory call is in progress, the lock is free.
C15_LockReleased ==
    (\A t \in Threads : pc[t] \in {"idle", "exited"}) => lock = Free

----------------------------------------------------------------------------
(* C16 *)

\* positions at which a thread reads or writes _workspaces
IndexAccess ==
    {"new_insert", "get_check", "get_lookup", "close_check", "close_teardown",
     "teardown_iter", "teardown_next", "teardown_body"}

\* positions at which a thread reads or writes _recent
RecentAccess == {"set_recent_write", "get_recent_read"}

\* C16, as claimed: a thread that is about to read or write the index or the
\* most-recent reference holds the factory lock.
C16_AllUnderLock ==
    \A t \in Threads : pc[t] \in IndexAccess \cup RecentAccess => lock = t

\* C16, amended: a thread that is about to read or write the most-recent
\* reference holds the factory lock; the index is accessed without it.
C16_RecentUnderLock ==
    \A t \in Threads : pc[t] \in RecentAccess => lock = t

\* one thread writes _recent under the lock while the other stores into the
\* index without it
C16_Witness ==
    /\ pc["main"] = "set_recent_write"
    /\ lock = "main"
    /\ pc["daemon"] = "new_insert"

----------------------------------------------------------------------------
(* C17 *)

\* C17: every workspace in the index is Active.
C17_IndexedAreActive ==
    \A w \in Values(workspaces) : state[w] = "Active"

----------------------------------------------------------------------------
(* C18 *)

\* a close or a sweep in flight is about to tear down workspace w
BeingTornDown(w) ==
    \E t \in Threads :
        /\ pc[t] \in {"close_teardown", "teardown_body"}
        /\ Has(workspaces, frame[t].id)
        /\ Lookup(workspaces, frame[t].id) = w

\* C18: under any interleaving of the threads' calls, the most-recent
\* reference, once assigned, refers to a workspace that is in the index or
\* that a call in flight is tearing down.
C18_RecentIsIndexed ==
    recent # NoRecent => (recent \in Values(workspaces) \/ BeingTornDown(recent))

\* the most-recent reference was last written by a get(id) of one thread while
\* the other thread is closing that workspace
C18_Witness ==
    /\ recent = 1
    /\ created = 2
    /\ frame["daemon"].op = "close"
    /\ pc["daemon"] = "close_teardown"
    /\ frame["daemon"].id = 1
    /\ pc["main"] = "idle"

----------------------------------------------------------------------------
(* C19 *)

\* C19: a thread that is constructing a workspace, or is about to run a
\* workspace's teardown, has not the factory lock acquired.
C19_NoLockAcrossSlowCalls ==
    \A t \in Threads :
        pc[t] \in {"new_construct", "close_teardown", "teardown_body"} => lock # t

----------------------------------------------------------------------------
(* C20 *)

====
